---- MODULE Spec2Model ----
(***************************************************************************)
(* Model of the API client core of go-api-client-best-practice:            *)
(* the rate headers parser (parseRate / newResponse), the error classifier *)
(* (CheckResponse), the admission guard (checkRateLimitBeforeDo) and the   *)
(* execution pipeline (Client.Do) run by concurrent callers that share     *)
(* Client.Rate under Client.ratemtx.                                       *)
(***************************************************************************)
EXTENDS Integers, Sequences, FiniteSets, TLC

(***************************************************************************)
(* Bounds of the model.                                                    *)
(***************************************************************************)
\* number of goroutines that call Do on the same Client
NumCallers == 2
\* total number of Do calls started in one behaviour
MaxDo == 2
\* the clock runs from 1 to MaxClock (seconds since the epoch)
MaxClock == 3
\* number of times the classifier harness calls CheckResponse on a response
MaxChecks == 2

Callers == 1..NumCallers

(***************************************************************************)
(* Strings are sequences of one-character strings; "" is << >>.            *)
(***************************************************************************)
Digits == {"0", "1", "2", "3", "4", "5", "6", "7", "8", "9"}

DigitVal(ch) ==
    CASE ch = "0" -> 0 [] ch = "1" -> 1 [] ch = "2" -> 2 [] ch = "3" -> 3
      [] ch = "4" -> 4 [] ch = "5" -> 5 [] ch = "6" -> 6 [] ch = "7" -> 7
      [] ch = "8" -> 8 [] ch = "9" -> 9

RECURSIVE ParseDigits(_, _)
ParseDigits(s, acc) ==
    IF s = << >> THEN acc ELSE ParseDigits(Tail(s), acc * 10 + DigitVal(Head(s)))

\* the largest int: 1<<63 - 1 in the code; the model's int is as wide as the
\* integers of the checker
IntMax == 2147483647

\* the digits s, read after the value acc, stay within IntMax
RECURSIVE InRange(_, _)
InRange(s, acc) ==
    IF s = << >> THEN TRUE
    ELSE /\ acc <= (IntMax - DigitVal(Head(s))) \div 10
         /\ InRange(Tail(s), acc * 10 + DigitVal(Head(s)))

\* strconv.Atoi / strconv.ParseInt(s, 10, 64): optional sign, then decimal
\* digits; a syntax error is (0, error), a value out of range is (the nearest
\* int, error).
Atoi(s) ==
    LET signed == s # << >> /\ Head(s) \in {"+", "-"}
        neg == signed /\ Head(s) = "-"
        digits == IF signed THEN Tail(s) ELSE s
    IN  IF digits = << >> \/ \E i \in 1..Len(digits) : digits[i] \notin Digits
        THEN [val |-> 0, err |-> TRUE]
        ELSE IF ~InRange(digits, 0)
        THEN [val |-> IF neg THEN 0 - IntMax - 1 ELSE IntMax, err |-> TRUE]
        ELSE [val |-> IF neg THEN 0 - ParseDigits(digits, 0) ELSE ParseDigits(digits, 0),
              err |-> FALSE]

(***************************************************************************)
(* Timestamp and Rate.                                                     *)
(***************************************************************************)
\* the zero time.Time (January 1, year 1): Reset of a zero-value Rate
ZeroTimestamp == [isZero |-> TRUE, sec |-> 0]

\* Timestamp{time.Unix(v, 0)}
TimeUnix(v) == [isZero |-> FALSE, sec |-> v]

\* t.Before(u); the zero time lies before every time the model can name
Before(t, u) ==
    CASE t.isZero /\ u.isZero -> FALSE
      [] t.isZero -> TRUE
      [] u.isZero -> FALSE
      [] OTHER -> t.sec < u.sec

\* the zero value of Rate
ZeroRate == [Limit |-> 0, Remaining |-> 0, Reset |-> ZeroTimestamp]

RateFields == <<"Limit", "Remaining", "Reset">>

(***************************************************************************)
(* Responses of the transport.  Header holds the values Header.Get gives   *)
(* for the three rate headers ("" when absent).  Body is a reader: it      *)
(* delivers data and then ends with EOF (fail = FALSE) or with a read      *)
(* error (fail = TRUE).                                                    *)
(***************************************************************************)
NoHeader == [limit |-> << >>, remaining |-> << >>, reset |-> << >>]

\* body tokens: a JSON string literal, or bare text
Str(x) == [q |-> TRUE, s |-> x]
Txt(x) == [q |-> FALSE, s |-> x]

EmptyBody == [data |-> << >>, fail |-> FALSE]

\* ioutil.ReadAll(r.Body): the data read until EOF or the first error
ReadAll(body) == [data |-> body.data, err |-> body.fail]

\* ioutil.NopCloser(bytes.NewBuffer(data))
NewBuffer(data) == [data |-> data, fail |-> FALSE, nop |-> TRUE]

\* the body is a NopCloser: its Close does nothing
IsNopCloser(body) == "nop" \in DOMAIN body

\* json.Unmarshal(data, errorResponse): the Message field when data is a
\* JSON object, an error otherwise; msg is the Message before the call.
Unmarshal(data, msg) ==
    IF data = <<Txt("{"), Txt("}")>>
    THEN [Message |-> msg, err |-> FALSE]
    ELSE IF /\ Len(data) = 5
            /\ data[1] = Txt("{") /\ data[2].q /\ data[3] = Txt(":")
            /\ data[4].q /\ data[5] = Txt("}")
         THEN [Message |-> IF data[2].s = "message" THEN <<Txt(data[4].s)>> ELSE msg,
               err |-> FALSE]
         ELSE [Message |-> msg, err |-> TRUE]

(***************************************************************************)
(* parseRate and newResponse.                                              *)
(***************************************************************************)
\* a response wrapper whose Rate drops the parsed headers
NewResponseNoParse(r) == [Response |-> r, Rate |-> ZeroRate]

parseRate(h) ==
    [Limit     |-> IF h.limit # << >> THEN Atoi(h.limit).val ELSE 0,
     Remaining |-> IF h.remaining # << >> THEN Atoi(h.remaining).val ELSE 0,
     Reset     |-> IF h.reset # << >> /\ Atoi(h.reset).val # 0
                   THEN TimeUnix(Atoi(h.reset).val)
                   ELSE ZeroTimestamp]

newResponse(r) == [Response |-> r, Rate |-> parseRate(r.Header)]

(***************************************************************************)
(* CheckResponse.  The result is the error (kind "nil" for no error) and   *)
(* the body the response is left with.                                     *)
(***************************************************************************)
StatusForbidden == 403

NoError == [kind |-> "nil"]

\* a classifier that accepts statuses 200..298 only
IsSuccessStatusStrict(c) == c >= 200 /\ c < 299

\* a classifier whose range test joins its bounds with "or"
IsSuccessStatusOr(c) == c >= 200 \/ c <= 299

IsSuccessStatus(c) == c >= 200 /\ c <= 299

\* a rate-limit test on the parsed remaining count instead of the header text
IsRateLimitedParsed(r) ==
    r.StatusCode = StatusForbidden /\ parseRate(r.Header).Remaining = 0

IsRateLimited(r) ==
    r.StatusCode = StatusForbidden /\ r.Header.remaining = <<"0">>

\* a message taken from the data even when the read failed
ErrorMessageIgnoreReadErr(read) ==
    IF Len(read.data) > 0
    THEN IF Unmarshal(read.data, << >>).err
         THEN read.data
         ELSE Unmarshal(read.data, << >>).Message
    ELSE << >>

\* the Message of the ErrorResponse after reading the body
ErrorMessage(read) ==
    IF ~read.err /\ Len(read.data) > 0
    THEN IF Unmarshal(read.data, << >>).err
         THEN read.data
         ELSE Unmarshal(read.data, << >>).Message
    ELSE << >>

CheckResponse(r) ==
    IF IsSuccessStatus(r.StatusCode)
    THEN [err |-> NoError, body |-> r.Body]
    ELSE LET read == ReadAll(r.Body)
             msg  == ErrorMessage(read)
             rr   == [r EXCEPT !.Body = NewBuffer(read.data)]
         IN  IF IsRateLimited(r)
             THEN [err  |-> [kind |-> "RateLimitError", Rate |-> parseRate(r.Header),
                             Response |-> rr, Message |-> msg],
                   body |-> rr.Body]
             ELSE [err  |-> [kind |-> "ErrorResponse", Response |-> rr, Message |-> msg],
                   body |-> rr.Body]

(***************************************************************************)
(* checkRateLimitBeforeDo.                                                 *)
(***************************************************************************)
HttpResponse(status, header, body) ==
    [StatusCode |-> status, Header |-> header, Body |-> body]

\* the nil *http.Response the transport returns together with an error
NilResponse == HttpResponse(0, NoHeader, EmptyBody)

\* a fake response with status 429 Too Many Requests
FakeResponse429 == HttpResponse(429, NoHeader, EmptyBody)

\* the fake response of the admission guard
FakeResponse == HttpResponse(StatusForbidden, NoHeader, EmptyBody)

\* a guard that looks at the remaining count only
ShouldThrottleNoReset(rate, t) == rate.Remaining = 0

\* a guard with the operands of Before swapped
ShouldThrottleSwapped(rate, t) ==
    /\ ~rate.Reset.isZero
    /\ rate.Remaining = 0
    /\ Before(rate.Reset, TimeUnix(t))

\* a guard that still throttles at the very time of the reset
ShouldThrottleAtReset(rate, t) ==
    /\ ~rate.Reset.isZero
    /\ rate.Remaining = 0
    /\ ~Before(rate.Reset, TimeUnix(t))

\* the condition of the guard on the snapshot rate at time t
ShouldThrottle(rate, t) ==
    /\ ~rate.Reset.isZero
    /\ rate.Remaining = 0
    /\ Before(TimeUnix(t), rate.Reset)

checkRateLimitBeforeDo(rate, t) ==
    IF ShouldThrottle(rate, t)
    THEN [kind |-> "RateLimitError", Rate |-> rate, Response |-> FakeResponse,
          Message |-> <<Txt("API rate limit of"), Txt(rate.Limit),
                        Txt("still exceeded until"), Txt(rate.Reset),
                        Txt("not making remote request.")>>]
    ELSE NoError

(***************************************************************************)
(* What the transport may answer in the pipeline model.                    *)
(***************************************************************************)
HdrNormal    == [limit |-> <<"5">>, remaining |-> <<"1">>, reset |-> <<"2">>]
HdrExhausted == [limit |-> <<"5">>, remaining |-> <<"0">>, reset |-> <<"2">>]
HdrNegative  == [limit |-> <<"5">>, remaining |-> <<"-", "1">>, reset |-> << >>]

DoBody == [data |-> <<Txt("{"), Str("message"), Txt(":"), Str("boom"), Txt("}")>>,
           fail |-> FALSE]

\* a body that is not JSON
DoBadBody == [data |-> <<Txt("oops")>>, fail |-> FALSE]

DoResponses ==
    { HttpResponse(200, HdrNormal, DoBody),
      HttpResponse(200, HdrExhausted, DoBadBody),
      HttpResponse(202, NoHeader, DoBody),
      HttpResponse(403, HdrExhausted, DoBody),
      HttpResponse(403, NoHeader, DoBody),
      HttpResponse(500, HdrNegative, DoBody) }

(***************************************************************************)
(* NewRequest.  A URL string is a sequence of tokens: a scheme ("https:"), *)
(* the "//" before a host, a host, "/" and path segments.  The body        *)
(* argument is nil, a value json can encode, or a value it cannot (a       *)
(* channel).                                                               *)
(***************************************************************************)
libraryVersion == "1.60.0"
defaultBaseURL == <<"https:", "//", "api.digitalocean.com", "/">>
userAgent == "godo/" \o libraryVersion
mediaType == "application/json"

MethodGet == "GET"
MethodHead == "HEAD"
MethodOptions == "OPTIONS"
MethodPost == "POST"

NoURL == [Scheme |-> "", Host |-> "", Path |-> << >>]

\* url.Parse: a string that starts with a colon or holds a bad escape is an
\* error; otherwise the scheme and host when the string has them, and the path
ParseURL(str) ==
    IF str # << >> /\ str[1] = ":"
    THEN [u |-> NoURL, err |-> TRUE]
    ELSE IF \E i \in 1..Len(str) : str[i] = "%zz"
    THEN [u |-> NoURL, err |-> TRUE]
    ELSE IF Len(str) >= 3 /\ str[1] = "https:" /\ str[2] = "//"
    THEN [u |-> [Scheme |-> str[1], Host |-> str[3], Path |-> SubSeq(str, 4, Len(str))],
          err |-> FALSE]
    ELSE [u |-> [Scheme |-> "", Host |-> "", Path |-> str], err |-> FALSE]

\* the path up to and including its last slash
PathDir(path) ==
    LET slashes == {i \in 1..Len(path) : path[i] = "/"}
    IN  IF slashes = {} THEN <<"/">>
        ELSE SubSeq(path, 1, CHOOSE i \in slashes : \A j \in slashes : j <= i)

\* URL.ResolveReference: an absolute reference stands for itself, an empty one
\* for the base, a rooted path replaces the base path, another path is joined
\* to the directory of the base path
ResolveReference(base, ref) ==
    IF ref.Scheme # "" THEN ref
    ELSE IF ref.Path = << >> THEN base
    ELSE IF ref.Path[1] = "/" THEN [base EXCEPT !.Path = ref.Path]
    ELSE [base EXCEPT !.Path = PathDir(base.Path) \o ref.Path]

\* NewClient: baseURL, _ := url.Parse(defaultBaseURL)
BaseURL == ParseURL(defaultBaseURL).u

\* c.BaseURL.Parse(urlStr)
BaseURLParse(urlStr) ==
    IF ParseURL(urlStr).err THEN [u |-> NoURL, err |-> TRUE]
    ELSE [u |-> ResolveReference(BaseURL, ParseURL(urlStr).u), err |-> FALSE]

\* u.String()
URLString(u) ==
    (IF u.Scheme # "" THEN <<u.Scheme, "//", u.Host>> ELSE << >>) \o u.Path

NilBody == [kind |-> "nil", name |-> ""]

\* an encoder that reports no error for a value it cannot encode
EncodeNoError(body) ==
    [data |-> IF body.kind = "struct"
              THEN <<Txt("{"), Str("name"), Txt(":"), Str(body.name), Txt("}"), Txt("\n")>>
              ELSE <<Txt("null"), Txt("\n")>>,
     err |-> FALSE]

\* json.NewEncoder(buf).Encode(body): the JSON text and a newline, or an
\* error for a value of an unsupported type
Encode(body) ==
    IF body.kind = "struct"
    THEN [data |-> <<Txt("{"), Str("name"), Txt(":"), Str(body.name), Txt("}"), Txt("\n")>>,
          err |-> FALSE]
    ELSE [data |-> << >>, err |-> TRUE]

NoRequestHeader == [ContentType |-> "", Accept |-> "", UserAgent |-> ""]

\* the nil *http.Request
NilRequest == [Method |-> "", URL |-> << >>, Header |-> NoRequestHeader, Body |-> << >>]

\* http.NewRequest(method, url, body): body is the content of the buffer,
\* << >> for a nil reader, and an empty buffer gives the request no body
HttpNewRequest(method, url, body) ==
    IF ParseURL(url).err
    THEN [req |-> NilRequest, err |-> TRUE]
    ELSE [req |-> [Method |-> method, URL |-> URLString(ParseURL(url).u),
                   Header |-> NoRequestHeader, Body |-> body],
          err |-> FALSE]

NoRequest(kind) == [req |-> NilRequest, err |-> [kind |-> kind], panic |-> FALSE]

\* req.Header.Set("Accept", mediaType); req.Header.Set("User-Agent",
\* c.UserAgent); return req, nil.  A nil req is dereferenced: the call panics.
AddHeaders(req) ==
    IF req = NilRequest
    THEN [req |-> NilRequest, err |-> NoError, panic |-> TRUE]
    ELSE [req |-> [req EXCEPT !.Header.Accept = mediaType, !.Header.UserAgent = userAgent],
          err |-> NoError, panic |-> FALSE]

\* the request NewRequest has built in its switch over the method
NewRequestSwitch(method, u, body) ==
    IF method \in {MethodGet, MethodHead, MethodOptions}
    THEN IF HttpNewRequest(method, URLString(u), << >>).err
         THEN NoRequest("url.Error")
         ELSE AddHeaders(HttpNewRequest(method, URLString(u), << >>).req)
    ELSE IF method = MethodPost
    THEN LET buf == IF body # NilBody THEN Encode(body) ELSE [data |-> << >>, err |-> FALSE]
         IN  IF buf.err THEN NoRequest("json.UnsupportedTypeError")
             ELSE IF HttpNewRequest(method, URLString(u), buf.data).err
             THEN NoRequest("url.Error")
             ELSE AddHeaders([HttpNewRequest(method, URLString(u), buf.data).req
                                EXCEPT !.Header.ContentType = mediaType])
    ELSE AddHeaders(NilRequest)

\* func (c *Client) NewRequest(ctx, method, urlStr, body)
NewRequest(method, urlStr, body) ==
    IF BaseURLParse(urlStr).err THEN NoRequest("url.Error")
    ELSE NewRequestSwitch(method, BaseURLParse(urlStr).u, body)

(***************************************************************************)
(* State.                                                                  *)
(***************************************************************************)
VARIABLES
    Rate,       \* Client.Rate
    ratemtx,    \* Client.ratemtx: 0 when free, else the caller holding it
    now,        \* the clock, time.Now() in seconds
    pc,         \* per caller: where its Do call stands
    fld,        \* per caller: how many fields of Rate its copy has moved
    rate,       \* per caller: the local rate of checkRateLimitBeforeDo
    resp,       \* per caller: the *http.Response of the transport
    response,   \* per caller: the *Response built by newResponse
    ret,        \* per caller: what Do returned
    started,    \* history: number of Do calls started
    sends,      \* history: per caller, transport sends of the current call
    sentAt,     \* history: per caller, rank of its send among all sends
    nsent,      \* history: number of sends so far
    wrote,      \* history: per caller, the fields its update stored
    lastUpdate, \* history: the update that finished most recently
    closes,     \* history: per caller, Close calls on the transport's body
    snapThr,    \* history: per caller, its snapshot was throttling when taken
    crIn,       \* classifier harness: the response as the transport gave it
    crResp,     \* classifier harness: the response under classification
    crPc,       \* classifier harness: number of CheckResponse calls made
    crOut,      \* classifier harness: the errors returned so far
    nrIn,       \* request harness: the arguments of NewRequest
    nrPc,       \* request harness: where the NewRequest call stands
    nrOut,      \* request harness: what NewRequest returned
    wrIn,       \* wrapper harness: the response given to newResponse
    wrPc,       \* wrapper harness: where the newResponse call stands
    wrOut       \* wrapper harness: the *Response newResponse returned

doVars == <<Rate, ratemtx, now, pc, fld, rate, resp, response, ret,
            started, sends, sentAt, nsent, wrote, lastUpdate, closes, snapThr>>
crVars == <<crIn, crResp, crPc, crOut>>
nrVars == <<nrIn, nrPc, nrOut>>
wrVars == <<wrIn, wrPc, wrOut>>
vars == <<Rate, ratemtx, now, pc, fld, rate, resp, response, ret,
          started, sends, sentAt, nsent, wrote, lastUpdate, closes, snapThr,
          crIn, crResp, crPc, crOut, nrIn, nrPc, nrOut, wrIn, wrPc, wrOut>>

\* v is the caller's output target: << >> until Do writes it
NoReturn == [resp |-> [Response |-> NilResponse, Rate |-> ZeroRate], err |-> NoError,
             returned |-> FALSE, v |-> << >>]

NoUpdate == [done |-> FALSE, Rate |-> ZeroRate]

\* NewClient: the Client starts with the zero-value Rate and a free mutex
DoInit ==
    /\ Rate = ZeroRate
    /\ ratemtx = 0
    /\ now = 1
    /\ pc = [c \in Callers |-> "idle"]
    /\ fld = [c \in Callers |-> 0]
    /\ rate = [c \in Callers |-> ZeroRate]
    /\ resp = [c \in Callers |-> NilResponse]
    /\ response = [c \in Callers |-> [Response |-> NilResponse, Rate |-> ZeroRate]]
    /\ ret = [c \in Callers |-> NoReturn]
    /\ started = 0
    /\ sends = [c \in Callers |-> 0]
    /\ sentAt = [c \in Callers |-> 0]
    /\ nsent = 0
    /\ wrote = [c \in Callers |-> << >>]
    /\ lastUpdate = NoUpdate
    /\ closes = [c \in Callers |-> 0]
    /\ snapThr = [c \in Callers |-> FALSE]

CrIdle ==
    /\ crIn = NilResponse
    /\ crResp = NilResponse
    /\ crPc = 0
    /\ crOut = << >>

NoArguments == [method |-> "", urlStr |-> << >>, body |-> NilBody]

NrIdle ==
    /\ nrIn = NoArguments
    /\ nrPc = "idle"
    /\ nrOut = NoRequest("nil")

WrIdle ==
    /\ wrIn = NilResponse
    /\ wrPc = "idle"
    /\ wrOut = [Response |-> NilResponse, Rate |-> ZeroRate]

Init == DoInit /\ CrIdle /\ NrIdle /\ WrIdle

(***************************************************************************)
(* The mutex and the struct copies made under it.                          *)
(***************************************************************************)
\* a Lock that does not wait for the holder
LockNoWait(m) == TRUE

\* sync.Mutex.Lock returns only once the mutex is free
CanLock(m) == m = 0

\* a store that keeps the old field when the new one is its zero value
AssignFieldKeepOld(old, new, k) ==
    IF new[RateFields[k]] = ZeroRate[RateFields[k]]
    THEN old
    ELSE [old EXCEPT ![RateFields[k]] = new[RateFields[k]]]

\* dst = src for a Rate moves the struct field by field: field k
AssignField(old, new, k) == [old EXCEPT ![RateFields[k]] = new[RateFields[k]]]

(***************************************************************************)
(* Client.Do, one action per step of a call by caller c.                   *)
(***************************************************************************)
\* a caller enters Do
Start(c) ==
    /\ pc[c] \in {"idle", "returned"}
    /\ started < MaxDo
    /\ started' = started + 1
    /\ pc' = [pc EXCEPT ![c] = "guard_lock"]
    /\ fld' = [fld EXCEPT ![c] = 0]
    /\ rate' = [rate EXCEPT ![c] = ZeroRate]
    /\ resp' = [resp EXCEPT ![c] = NilResponse]
    /\ response' = [response EXCEPT ![c] = [Response |-> NilResponse, Rate |-> ZeroRate]]
    /\ ret' = [ret EXCEPT ![c] = NoReturn]
    /\ sends' = [sends EXCEPT ![c] = 0]
    /\ sentAt' = [sentAt EXCEPT ![c] = 0]
    /\ wrote' = [wrote EXCEPT ![c] = << >>]
    /\ closes' = [closes EXCEPT ![c] = 0]
    /\ snapThr' = [snapThr EXCEPT ![c] = FALSE]
    /\ UNCHANGED <<Rate, ratemtx, now, nsent, lastUpdate, crVars, nrVars, wrVars>>

\* checkRateLimitBeforeDo: c.ratemtx.Lock()
GuardLock(c) ==
    /\ pc[c] = "guard_lock"
    /\ CanLock(ratemtx)
    /\ ratemtx' = c
    /\ pc' = [pc EXCEPT ![c] = "guard_read"]
    /\ fld' = [fld EXCEPT ![c] = 0]
    /\ UNCHANGED <<Rate, now, rate, resp, response, ret, started, sends,
                   sentAt, nsent, wrote, lastUpdate, closes, snapThr, crVars, nrVars, wrVars>>

\* checkRateLimitBeforeDo: rate := c.Rate, one field
GuardRead(c) ==
    /\ pc[c] = "guard_read"
    /\ fld[c] < Len(RateFields)
    /\ rate' = [rate EXCEPT ![c] = AssignField(rate[c], Rate, fld[c] + 1)]
    /\ fld' = [fld EXCEPT ![c] = fld[c] + 1]
    /\ snapThr' = [snapThr EXCEPT ![c] = /\ fld'[c] = Len(RateFields)
                                          /\ rate'[c].Remaining = 0
                                          /\ Before(TimeUnix(now), rate'[c].Reset)]
    /\ UNCHANGED <<Rate, ratemtx, now, pc, resp, response, ret, started, sends,
                   sentAt, nsent, wrote, lastUpdate, closes, crVars, nrVars, wrVars>>

\* checkRateLimitBeforeDo: c.ratemtx.Unlock()
GuardUnlock(c) ==
    /\ pc[c] = "guard_read"
    /\ fld[c] = Len(RateFields)
    /\ ratemtx' = 0
    /\ pc' = [pc EXCEPT ![c] = "guard_check"]
    /\ UNCHANGED <<Rate, now, fld, rate, resp, response, ret, started, sends,
                   sentAt, nsent, wrote, lastUpdate, closes, snapThr, crVars, nrVars, wrVars>>

\* checkRateLimitBeforeDo: the test on the snapshot at time.Now(); then either
\* Do's early return, or client.Do(req) hands the request to the transport
GuardCheck(c) ==
    /\ pc[c] = "guard_check"
    /\ LET err == checkRateLimitBeforeDo(rate[c], now)
       IN  IF err.kind # "nil"
           THEN /\ ret' = [ret EXCEPT ![c] =
                            [resp |-> [Response |-> err.Response, Rate |-> err.Rate],
                             err |-> err, returned |-> TRUE, v |-> ret[c].v]]
                /\ pc' = [pc EXCEPT ![c] = "returned"]
                /\ UNCHANGED <<sends, nsent, sentAt>>
           ELSE /\ ret' = ret
                /\ pc' = [pc EXCEPT ![c] = "in_flight"]
                /\ sends' = [sends EXCEPT ![c] = sends[c] + 1]
                /\ nsent' = nsent + 1
                /\ sentAt' = [sentAt EXCEPT ![c] = nsent + 1]
    /\ rate' = [rate EXCEPT ![c] = ZeroRate]
    /\ snapThr' = [snapThr EXCEPT ![c] = FALSE]
    /\ UNCHANGED <<Rate, ratemtx, now, fld, resp, response, started,
                   wrote, lastUpdate, closes, crVars, nrVars, wrVars>>

\* the transport answers; Do: response := newResponse(resp)
TransportRespond(c) ==
    /\ pc[c] = "in_flight"
    /\ \E r \in DoResponses :
        /\ resp' = [resp EXCEPT ![c] = r]
        /\ response' = [response EXCEPT ![c] = newResponse(r)]
    /\ pc' = [pc EXCEPT ![c] = "update_lock"]
    /\ UNCHANGED <<Rate, ratemtx, now, fld, rate, ret, started, sends,
                   sentAt, nsent, wrote, lastUpdate, closes, snapThr, crVars, nrVars, wrVars>>

\* the transport fails (connection error, timeout, cancelled context) and
\* resp is nil; Do: newResponse(resp) reads the headers of the nil response,
\* a nil pointer dereference
TransportFail(c) ==
    /\ pc[c] = "in_flight"
    /\ resp' = [resp EXCEPT ![c] = NilResponse]
    /\ pc' = [pc EXCEPT ![c] = "panicked"]
    /\ UNCHANGED <<Rate, ratemtx, now, fld, rate, response, ret, started, sends,
                   sentAt, nsent, wrote, lastUpdate, closes, snapThr, crVars, nrVars, wrVars>>

\* Do: c.ratemtx.Lock()
UpdateLock(c) ==
    /\ pc[c] = "update_lock"
    /\ CanLock(ratemtx)
    /\ ratemtx' = c
    /\ pc' = [pc EXCEPT ![c] = "update_write"]
    /\ fld' = [fld EXCEPT ![c] = 0]
    /\ UNCHANGED <<Rate, now, rate, resp, response, ret, started, sends,
                   sentAt, nsent, wrote, lastUpdate, closes, snapThr, crVars, nrVars, wrVars>>

\* Do: c.Rate = response.Rate, one field
UpdateWrite(c) ==
    /\ pc[c] = "update_write"
    /\ fld[c] < Len(RateFields)
    /\ Rate' = AssignField(Rate, response[c].Rate, fld[c] + 1)
    /\ wrote' = [wrote EXCEPT ![c] = Append(wrote[c], Rate'[RateFields[fld[c] + 1]])]
    /\ fld' = [fld EXCEPT ![c] = fld[c] + 1]
    /\ UNCHANGED <<ratemtx, now, pc, rate, resp, response, ret, started, sends,
                   sentAt, nsent, lastUpdate, closes, snapThr, crVars, nrVars, wrVars>>

\* Do: c.ratemtx.Unlock()
UpdateUnlock(c) ==
    /\ pc[c] = "update_write"
    /\ fld[c] = Len(RateFields)
    /\ ratemtx' = 0
    /\ pc' = [pc EXCEPT ![c] = "classify"]
    /\ lastUpdate' = [done |-> TRUE, Rate |-> response[c].Rate]
    /\ UNCHANGED <<Rate, now, fld, rate, resp, response, ret, started, sends,
                   sentAt, nsent, wrote, closes, snapThr, crVars, nrVars, wrVars>>

\* a Do that sends the request again after a rate-limit error
AfterCheckResponseRetry(err) ==
    IF err.kind = "RateLimitError" THEN "guard_lock"
    ELSE IF err.kind # "nil" THEN "returned" ELSE "decode"

\* Do: if err != nil { return response, err }
AfterCheckResponse(err) == IF err.kind # "nil" THEN "returned" ELSE "decode"

\* json.NewDecoder(resp.Body).Decode(v): the value for the output target
DecodeBody(body) ==
    IF ReadAll(body).err \/ Unmarshal(ReadAll(body).data, << >>).err
    THEN [v |-> << >>, err |-> [kind |-> "DecodingError"]]
    ELSE [v |-> ReadAll(body).data, err |-> NoError]

\* the deferred function of Do: io.CopyN(ioutil.Discard, resp.Body, ...)
Drain(body) == [body EXCEPT !.data = << >>]

\* the deferred function of Do: resp.Body.Close(), on the body resp holds
\* when Do returns; the number of Close calls that reach the transport's body
DeferredClose(body) == IF IsNopCloser(body) THEN 0 ELSE 1

\* Do from err = CheckResponse(resp) to its return, statements local to the
\* call: an error returns with the response; without an error the success body
\* is decoded into v and Do returns the response and the decoder's error; the
\* deferred function then drains and closes resp.Body
Classify(c) ==
    /\ pc[c] = "classify"
    /\ LET chk == CheckResponse(resp[c])
           next == AfterCheckResponse(chk.err)
           dec == DecodeBody(chk.body)
           body == IF next = "decode" THEN EmptyBody ELSE chk.body
       IN  /\ resp' = [resp EXCEPT ![c].Body = IF next \in {"decode", "returned"}
                                                THEN Drain(body) ELSE body]
           /\ closes' = [closes EXCEPT ![c] = IF next \in {"decode", "returned"}
                                               THEN DeferredClose(body) ELSE 0]
           /\ pc' = [pc EXCEPT ![c] = IF next = "decode" THEN "returned" ELSE next]
           /\ ret' = [ret EXCEPT ![c] =
                       CASE next = "decode" ->
                              [resp |-> [response[c] EXCEPT !.Response.Body = Drain(body)],
                               err |-> dec.err, returned |-> TRUE,
                               v |-> IF dec.err.kind = "nil" THEN dec.v ELSE ret[c].v]
                         [] next = "returned" ->
                              [resp |-> [response[c] EXCEPT !.Response.Body = Drain(body)],
                               err |-> [chk.err EXCEPT !.Response.Body = Drain(body)],
                               returned |-> TRUE, v |-> ret[c].v]
                         [] OTHER -> ret[c]]
    /\ UNCHANGED <<Rate, ratemtx, now, fld, rate, response, started, sends,
                   sentAt, nsent, wrote, lastUpdate, snapThr, crVars, nrVars, wrVars>>

\* a second passes
Tick ==
    /\ now < MaxClock
    /\ now' = now + 1
    /\ UNCHANGED <<Rate, ratemtx, pc, fld, rate, resp, response, ret, started,
                   sends, sentAt, nsent, wrote, lastUpdate, closes, snapThr, crVars, nrVars, wrVars>>

Next ==
    \/ Tick
    \/ \E c \in Callers :
        \/ Start(c)
        \/ GuardLock(c)
        \/ GuardRead(c)
        \/ GuardUnlock(c)
        \/ GuardCheck(c)
        \/ TransportRespond(c)
        \/ TransportFail(c)
        \/ UpdateLock(c)
        \/ UpdateWrite(c)
        \/ UpdateUnlock(c)
        \/ Classify(c)

Spec == Init /\ [][Next]_vars

\* the steps of caller c's call once Do was entered
DoStep(c) ==
    \/ GuardLock(c)
    \/ GuardRead(c)
    \/ GuardUnlock(c)
    \/ GuardCheck(c)
    \/ TransportRespond(c)
    \/ TransportFail(c)
    \/ UpdateLock(c)
    \/ UpdateWrite(c)
    \/ UpdateUnlock(c)
    \/ Classify(c)

\* every call that can take a step takes one in the end: the scheduler runs
\* each goroutine and the transport answers or fails
SpecLive == Spec /\ \A c \in Callers : WF_vars(DoStep(c))

(***************************************************************************)
(* The classifier on its own: CheckResponse applied MaxChecks times in a   *)
(* row to one response drawn from CrResponses.                             *)
(***************************************************************************)
CrStatuses == {199, 200, 202, 299, 300, 403, 404, 500}

CrHeaders ==
    [limit     : {<< >>, <<"5">>},
     remaining : {<< >>, <<"0">>, <<"0", "0">>, <<"1">>, <<"x">>},
     reset     : {<< >>, <<"2">>}]

CrData ==
    { << >>,
      <<Txt("{"), Str("message"), Txt(":"), Str("boom"), Txt("}")>>,
      <<Txt("{"), Str("other"), Txt(":"), Str("boom"), Txt("}")>>,
      <<Txt("{"), Txt("}")>>,
      <<Txt("{"), Str("message")>>,
      <<Txt("oops")>> }

CrBodies == [data : CrData, fail : BOOLEAN]

CrResponses == {HttpResponse(s, h, b) : s \in CrStatuses, h \in CrHeaders, b \in CrBodies}

CrInit ==
    /\ crIn \in CrResponses
    /\ crResp = crIn
    /\ crPc = 0
    /\ crOut = << >>

\* err := CheckResponse(r), which leaves r with the body it re-populated
CrCheck ==
    /\ crPc < MaxChecks
    /\ crOut' = Append(crOut, CheckResponse(crResp).err)
    /\ crResp' = [crResp EXCEPT !.Body = CheckResponse(crResp).body]
    /\ crPc' = crPc + 1
    /\ UNCHANGED <<crIn, doVars, nrVars, wrVars>>

InitCheck == DoInit /\ CrInit /\ NrIdle /\ WrIdle

NextCheck == CrCheck

SpecCheck == InitCheck /\ [][NextCheck]_vars

(***************************************************************************)
(* NewRequest on its own: one call on a Client whose cached Rate is one of *)
(* the rates a response can have stored.                                   *)
(***************************************************************************)
NrMethods == {MethodGet, MethodHead, MethodOptions, MethodPost, "PUT", "PATCH", "DELETE"}

NrURLs ==
    { << >>,
      <<"v2", "/", "tags">>,
      <<"/", "v2", "/", "tags">>,
      <<"https:", "//", "example.com", "/", "x">>,
      <<":", "bad">>,
      <<"v2", "/", "%zz">> }

NrBodies == {NilBody, [kind |-> "struct", name |-> "web"], [kind |-> "chan", name |-> ""]}

NrRates == {ZeroRate, parseRate(HdrNormal), parseRate(HdrExhausted)}

NrInit ==
    /\ nrIn \in [method : NrMethods, urlStr : NrURLs, body : NrBodies]
    /\ nrPc = "call"
    /\ nrOut = NoRequest("nil")

\* the Client between two Do calls, with the Rate the last response stored
DoQuiet ==
    /\ Rate \in NrRates
    /\ ratemtx = 0
    /\ now = 1
    /\ pc = [c \in Callers |-> "idle"]
    /\ fld = [c \in Callers |-> 0]
    /\ rate = [c \in Callers |-> ZeroRate]
    /\ resp = [c \in Callers |-> NilResponse]
    /\ response = [c \in Callers |-> [Response |-> NilResponse, Rate |-> ZeroRate]]
    /\ ret = [c \in Callers |-> NoReturn]
    /\ started = 0
    /\ sends = [c \in Callers |-> 0]
    /\ sentAt = [c \in Callers |-> 0]
    /\ nsent = 0
    /\ wrote = [c \in Callers |-> << >>]
    /\ lastUpdate = NoUpdate
    /\ closes = [c \in Callers |-> 0]
    /\ snapThr = [c \in Callers |-> FALSE]

\* req, err := c.NewRequest(ctx, method, urlStr, body)
NrCall ==
    /\ nrPc = "call"
    /\ nrOut' = NewRequest(nrIn.method, nrIn.urlStr, nrIn.body)
    /\ nrPc' = IF NewRequest(nrIn.method, nrIn.urlStr, nrIn.body).panic
               THEN "panicked" ELSE "returned"
    /\ UNCHANGED <<nrIn, doVars, crVars, wrVars>>

InitReq == DoQuiet /\ CrIdle /\ NrInit /\ WrIdle

NextReq == NrCall

SpecReq == InitReq /\ [][NextReq]_vars

(***************************************************************************)
(* newResponse on its own: one call on a response with any rate headers.   *)
(***************************************************************************)
WrTexts ==
    { << >>, <<"0">>, <<"5">>, <<"-", "1">>, <<"x">>, <<"1", "x">>,
      <<"9", "9", "9", "9", "9", "9", "9", "9", "9", "9", "9">> }

WrHeaders == [limit : WrTexts, remaining : WrTexts, reset : WrTexts]

WrInit ==
    /\ wrIn \in {HttpResponse(s, h, EmptyBody) : s \in {200, StatusForbidden}, h \in WrHeaders}
    /\ wrPc = "call"
    /\ wrOut = [Response |-> NilResponse, Rate |-> ZeroRate]

\* response := newResponse(resp)
WrCall ==
    /\ wrPc = "call"
    /\ wrOut' = newResponse(wrIn)
    /\ wrPc' = "returned"
    /\ UNCHANGED <<wrIn, doVars, crVars, nrVars>>

InitWrap == DoInit /\ CrIdle /\ NrIdle /\ WrInit

NextWrap == WrCall

SpecWrap == InitWrap /\ [][NextWrap]_vars

(***************************************************************************)
(* Properties.                                                             *)
(***************************************************************************)
\* the throttling condition in the specification's words: remaining == 0 and
\* the time t strictly before reset
Throttling(r, t) == r.Remaining = 0 /\ Before(TimeUnix(t), r.Reset)

\* caller c's Do call has returned from the admission guard's short-circuit
Throttled(c) ==
    /\ pc[c] = "returned"
    /\ ret[c].err.kind = "RateLimitError"
    /\ sends[c] = 0

C2_ZeroRateNeverThrottles ==
    [][\A c \in Callers :
        (pc[c] = "guard_check" /\ pc'[c] # "guard_check" /\ rate[c] = ZeroRate)
        => /\ pc'[c] = "in_flight"
           /\ sends'[c] = 1
           /\ ~ret'[c].returned]_vars

\* the first Do call of a fresh Client is in flight, late on the clock
C2_Witness ==
    \E c \in Callers :
        /\ pc[c] = "in_flight"
        /\ started = 1
        /\ ~lastUpdate.done
        /\ Rate = ZeroRate
        /\ now = MaxClock

\* C3: whenever no update is in the middle of its store, the cached Rate is
\* the rate of the response whose update finished most recently (the zero
\* value before any update).
C3_LastWriteWins ==
    (\A c \in Callers : pc[c] # "update_write") => Rate = lastUpdate.Rate

\* the response of the request sent first was stored last and is the cached Rate
C3_Witness ==
    \E a, b \in Callers :
        /\ 0 < sentAt[a] /\ sentAt[a] < sentAt[b]
        /\ pc[a] = "classify"
        /\ pc[b] \in {"classify", "returned"}
        /\ Len(wrote[b]) = Len(RateFields)
        /\ response[a].Rate # response[b].Rate
        /\ Rate = response[a].Rate

\* C4: a snapshot the guard has finished copying is the whole triple of the
\* update that finished most recently (the zero value before any update),
\* and is the cached Rate at that moment.
C4_NoTornRead ==
    \A c \in Callers :
        (pc[c] = "guard_read" /\ fld[c] = Len(RateFields))
        => (rate[c] = lastUpdate.Rate /\ rate[c] = Rate)

\* a snapshot is complete and is the rate another call, not yet returned,
\* has just stored
C4_Witness ==
    \E c, d \in Callers :
        /\ c # d
        /\ pc[c] = "guard_read" /\ fld[c] = Len(RateFields)
        /\ rate[c] # ZeroRate
        /\ pc[d] = "classify"
        /\ rate[c] = response[d].Rate

\* the rate parsed from the response caller c received, as stored field by field
ParsedFields(c) ==
    <<parseRate(resp[c].Header).Limit, parseRate(resp[c].Header).Remaining,
      parseRate(resp[c].Header).Reset>>

\* C5: a Do call that received a response has stored the rate parsed from that
\* response in the cached Rate by the time the response is classified, and so
\* also when it returns, whatever the status and whatever the classification.
C5_UpdateOnEveryResponse ==
    \A c \in Callers :
        (pc[c] = "classify" \/ (pc[c] = "returned" /\ resp[c] # NilResponse))
        => wrote[c] = ParsedFields(c)

\* a call that returned an error for a status 500 response stored its rate
C5_Witness ==
    \E c \in Callers :
        /\ pc[c] = "returned"
        /\ resp[c].StatusCode = 500
        /\ ret[c].err.kind = "ErrorResponse"
        /\ wrote[c] = ParsedFields(c)
        /\ Rate = parseRate(resp[c].Header)
        /\ Rate # ZeroRate

\* C7: a Do call whose response has status 202 returns an AcceptedError.
C7_AcceptedOn202 ==
    \A c \in Callers :
        (pc[c] = "returned" /\ resp[c].StatusCode = 202)
        => ret[c].err.kind = "AcceptedError"

C8_RateLimitError ==
    crPc >= 1 =>
        /\ (crOut[1].kind = "RateLimitError")
             <=> (crIn.StatusCode = 403 /\ crIn.Header.remaining = <<"0">>)
        /\ crOut[1].kind = "RateLimitError" =>
             /\ crOut[1].Rate = parseRate(crIn.Header)
             /\ crOut[1].Rate.Remaining = 0
             /\ crOut[1].Response.StatusCode = crIn.StatusCode
             /\ crOut[1].Response.Header = crIn.Header
        /\ (crIn.StatusCode = 403 /\ crIn.Header.remaining # <<"0">>)
             => crOut[1].kind = "ErrorResponse"

C8_Witness ==
    /\ crPc >= 1
    /\ crOut[1].kind = "RateLimitError"
    /\ crOut[1].Rate.Remaining = 0
    /\ crOut[1].Rate.Limit = 5
    /\ crOut[1].Response.StatusCode = 403

\* the message the specification gives an error response with this body
ExpectedMessage(body) ==
    IF body.fail \/ body.data = << >>
    THEN << >>
    ELSE IF Unmarshal(body.data, << >>).err
         THEN body.data
         ELSE Unmarshal(body.data, << >>).Message

C10_ClassifierIdempotent ==
    crPc >= 2 =>
        /\ crOut[1].kind = crOut[2].kind
        /\ crOut[1].kind # "nil" => crOut[1].Message = crOut[2].Message

\* caller c's transport send has failed and the call has moved on
SendFailed(c) == sends[c] = 1 /\ pc[c] # "in_flight" /\ resp[c] = NilResponse

\* C11: when the transport send fails, Do returns a TransportError with no
\* envelope, classifies nothing and stores nothing in the cached Rate.
C11_TransportError ==
    \A c \in Callers :
        SendFailed(c)
        => /\ pc[c] = "returned"
           /\ ret[c].returned
           /\ ret[c].err.kind = "TransportError"
           /\ ret[c].resp.Response = NilResponse
           /\ wrote[c] = << >>

\* caller c's Do call has returned after it received a response
ReturnedResponse(c) == pc[c] = "returned" /\ resp[c] # NilResponse

\* C12: a Do call that returns after it received a response returns an
\* envelope that wraps that response, and the envelope's Rate is the rate
\* parsed from the headers of that response.
C12_EnvelopeOnEveryOutcome ==
    \A c \in Callers :
        ReturnedResponse(c)
        => /\ ret[c].returned
           /\ ret[c].resp.Response # NilResponse
           /\ ret[c].resp.Response.StatusCode = resp[c].StatusCode
           /\ ret[c].resp.Response.Header = resp[c].Header
           /\ ret[c].resp.Rate = parseRate(resp[c].Header)

\* a successful call returned its payload and an envelope with a parsed rate
C12_Witness ==
    \E c \in Callers :
        /\ ReturnedResponse(c)
        /\ ret[c].err.kind = "nil"
        /\ ret[c].v # << >>
        /\ ret[c].resp.Rate = parseRate(HdrNormal)

\* C13: a Do call hands its request to the transport at most once: never when
\* the guard throttled it, once on every other path, whatever the outcome.
C13_NoRetry ==
    \A c \in Callers :
        /\ sends[c] <= 1
        /\ (pc[c] = "returned" /\ ret[c].resp.Response = FakeResponse) => sends[c] = 0
        /\ ReturnedResponse(c) => sends[c] = 1
        /\ pc[c] = "panicked" => sends[c] = 1

\* a call returned the RateLimitError of a 403 response after its one send
C13_Witness ==
    \E c \in Callers :
        /\ ReturnedResponse(c)
        /\ resp[c].StatusCode = 403
        /\ ret[c].err.kind = "RateLimitError"
        /\ sends[c] = 1

\* the remaining count the RateLimit-Remaining header text h stands for
RemainingOf(h) == IF h # << >> /\ ~Atoi(h).err THEN Atoi(h).val ELSE 0

\* C14 as stated: the store of a response sets the cached remaining to the
\* parsed header when it is present and parses, and leaves the cached
\* remaining as it was when the header is absent.
C14_AbsentKeepsCached ==
    [][\A c \in Callers :
        (pc[c] = "update_write" /\ fld[c] = 1 /\ fld'[c] = 2)
        => /\ (resp[c].Header.remaining # << >> /\ ~Atoi(resp[c].Header.remaining).err)
                => Rate'.Remaining = Atoi(resp[c].Header.remaining).val
           /\ resp[c].Header.remaining = << >>
                => Rate'.Remaining = Rate.Remaining]_vars

\* C14 amended: once a call has stored its response, the remaining of its
\* envelope and of the cached Rate is the parsed header when it is present and
\* parses, and 0 when it is absent, whatever was cached before.
C14_RemainingFromHeader ==
    \A c \in Callers :
        (pc[c] = "update_write" /\ fld[c] = Len(RateFields))
        => /\ response[c].Rate.Remaining = RemainingOf(resp[c].Header.remaining)
           /\ Rate.Remaining = RemainingOf(resp[c].Header.remaining)

\* a response without the header has replaced a cached remaining of 1 by 0
C14_Witness ==
    \E c \in Callers :
        /\ pc[c] = "update_write" /\ fld[c] = Len(RateFields)
        /\ resp[c].Header.remaining = << >>
        /\ lastUpdate.done
        /\ lastUpdate.Rate.Remaining = 1
        /\ Rate.Remaining = 0

\* C15: the cached Rate never has a negative remaining.
C15_RemainingNonNegative == Rate.Remaining >= 0

\* the body of the response caller c received can be decoded
Decodable(c) ==
    /\ ~response[c].Response.Body.fail
    /\ ~Unmarshal(response[c].Response.Body.data, << >>).err

NrResolved == nrPc # "call" /\ ~BaseURLParse(nrIn.urlStr).err

\* C16: for POST, PUT or PATCH with a non-null body the request NewRequest
\* returns has the serialized body and Content-Type application/json; for GET,
\* HEAD and OPTIONS it has no body and no Content-Type whatever body is given.
C16_BodyByMethod ==
    /\ (NrResolved /\ nrIn.method \in {MethodPost, "PUT", "PATCH"}
          /\ nrIn.body.kind = "struct")
         => /\ nrPc = "returned"
            /\ nrOut.err.kind = "nil"
            /\ nrOut.req.Body = Encode(nrIn.body).data
            /\ nrOut.req.Header.ContentType = mediaType
    /\ (NrResolved /\ nrIn.method \in {MethodGet, MethodHead, MethodOptions})
         => /\ nrPc = "returned"
            /\ nrOut.err.kind = "nil"
            /\ nrOut.req.Body = << >>
            /\ nrOut.req.Header.ContentType = ""

\* C17: for every method, once the path resolved and the body (if any) was
\* encoded, NewRequest returns a request that carries Accept application/json
\* and the Client's User-Agent.
C17_RequestForEveryMethod ==
    (NrResolved /\ nrIn.body.kind # "chan")
    => /\ nrPc = "returned"
       /\ nrOut.err.kind = "nil"
       /\ nrOut.req # NilRequest
       /\ nrOut.req.Method = nrIn.method
       /\ nrOut.req.Header.Accept = mediaType
       /\ nrOut.req.Header.UserAgent = userAgent

\* C18: a NewRequest call changes nothing of the Client (cached Rate, mutex,
\* sends to the transport), and when the path does not resolve or the body of
\* a POST cannot be encoded it returns an error and no request.
C18_PureConstruction ==
    [][nrPc = "call" /\ nrPc' # "call"
        => /\ UNCHANGED doVars
           /\ (\/ BaseURLParse(nrIn.urlStr).err
               \/ (nrIn.method = MethodPost /\ nrIn.body.kind = "chan"))
                => /\ nrPc' = "returned"
                   /\ nrOut'.err.kind # "nil"
                   /\ nrOut'.req = NilRequest]_vars

\* a POST whose body cannot be encoded returned an error and no request on a
\* Client whose cached Rate is exhausted
C18_Witness ==
    /\ nrPc = "returned"
    /\ nrIn.method = MethodPost
    /\ nrIn.body.kind = "chan"
    /\ ~BaseURLParse(nrIn.urlStr).err
    /\ nrOut.err.kind = "json.UnsupportedTypeError"
    /\ nrOut.req = NilRequest
    /\ Rate = parseRate(HdrExhausted)
    /\ nsent = 0

\* the rate header text h is absent or does not parse as an integer
Unparsed(h) == h = << >> \/ Atoi(h).err

\* C21: newResponse always returns a wrapper of the response it was given,
\* and each field of its Rate whose header is absent or does not parse is at
\* its zero value, whatever the other two headers are.
C21_WrapNeverFails ==
    wrPc = "returned"
    => /\ wrOut.Response = wrIn
       /\ Unparsed(wrIn.Header.limit) => wrOut.Rate.Limit = 0
       /\ Unparsed(wrIn.Header.remaining) => wrOut.Rate.Remaining = 0
       /\ Unparsed(wrIn.Header.reset) => wrOut.Rate.Reset = ZeroTimestamp

\* C22: a Do call that received a response and has returned has closed the
\* body the transport gave it exactly once, on the success path, on the path
\* of a classified error and on the path of a decode error.
C22_BodyClosedOnce ==
    \A c \in Callers : ReturnedResponse(c) => closes[c] = 1

\* C23: a call is classified only after it received a response for its one
\* send, a throttled call has sent nothing, and every call that entered Do
\* reaches a terminal state in the end: it returns.
C23_PerCallStateMachine ==
    \A c \in Callers :
        /\ [](pc[c] = "classify" => (resp[c] # NilResponse /\ sends[c] = 1))
        /\ []((pc[c] = "returned" /\ ret[c].resp.Response = FakeResponse) => sends[c] = 0)
        /\ (pc[c] = "guard_lock" ~> pc[c] = "returned")

\* the step in which caller c's guard tests its snapshot
GuardTest(c) == pc[c] = "guard_check" /\ pc'[c] # "guard_check"

\* C24 as stated: a call whose snapshot had remaining 0 and a reset in the
\* future at the time it was taken is throttled.
C24_SnapshotBeforeReset ==
    [][\A c \in Callers :
        (GuardTest(c) /\ snapThr[c])
        => (pc'[c] = "returned" /\ sends'[c] = 0)]_vars

\* C24 amended: once the last response stored, of any status, has remaining 0
\* and a reset in the future, every call of every caller whose guard tests a
\* snapshot of that state before the reset is throttled.
C24_GlobalGuard ==
    [][\A c \in Callers :
        (/\ GuardTest(c)
         /\ lastUpdate.done
         /\ rate[c] = lastUpdate.Rate
         /\ rate[c].Remaining = 0
         /\ Before(TimeUnix(now), rate[c].Reset))
        => /\ pc'[c] = "returned"
           /\ sends'[c] = 0
           /\ ret'[c].err.kind = "RateLimitError"
           /\ ret'[c].resp.Rate = lastUpdate.Rate]_vars

\* a call is throttled by the rate that the 200 response of another caller's
\* call has stored
C24_Witness ==
    \E c, d \in Callers :
        /\ c # d
        /\ pc[d] = "returned"
        /\ resp[d].StatusCode = 200
        /\ response[d].Rate = parseRate(HdrExhausted)
        /\ lastUpdate.Rate = response[d].Rate
        /\ pc[c] = "returned" /\ sends[c] = 0
        /\ ret[c].err.kind = "RateLimitError"
        /\ ret[c].resp.Rate = response[d].Rate
        /\ now < ret[c].resp.Rate.Reset.sec

\* C25: the step in which the guard throttles a call leaves the cached Rate
\* as it is, a call that returned the guard's fake response has stored
\* nothing, and every change of the cached Rate is a field stored by a call
\* that has sent its request and holds the response of the transport.
C25_ThrottledWritesNothing ==
    [][/\ \A c \in Callers :
            /\ (GuardTest(c) /\ pc'[c] = "returned") => Rate' = Rate
            /\ (pc'[c] = "returned" /\ ret'[c].resp.Response = FakeResponse)
                 => wrote'[c] = << >>
       /\ Rate' # Rate
            => \E c \in Callers :
                /\ pc[c] = "update_write"
                /\ ratemtx = c
                /\ sends[c] = 1
                /\ resp[c] # NilResponse
                /\ wrote'[c] # wrote[c]]_vars

\* a throttled call has returned, has stored nothing, and the cached Rate is
\* still the one the last response stored
C25_Witness ==
    \E c \in Callers :
        /\ pc[c] = "returned" /\ sends[c] = 0
        /\ ret[c].resp.Response = FakeResponse
        /\ wrote[c] = << >>
        /\ lastUpdate.done
        /\ Rate = lastUpdate.Rate
        /\ Rate = ret[c].err.Rate

\* C26: a guard that tests a snapshot with remaining 0 at or after the reset
\* of that snapshot, the very time of the reset included, does not throttle:
\* the request goes to the transport.  A call started at or after the reset
\* tests at or after it, since the clock never goes back.
C26_ThrottlingLifts ==
    [][/\ now' >= now
       /\ \A c \in Callers :
            (/\ GuardTest(c)
             /\ rate[c].Remaining = 0
             /\ ~rate[c].Reset.isZero
             /\ now >= rate[c].Reset.sec)
            => /\ pc'[c] = "in_flight"
               /\ sends'[c] = 1
               /\ ~ret'[c].returned]_vars

\* the one caller at work had its first call answered with remaining 0 and
\* reset 2; its second call is in flight at time 2, the cached Rate unchanged
C26_Witness ==
    \E c \in Callers :
        /\ \A d \in Callers \ {c} : pc[d] = "idle"
        /\ started = 2
        /\ pc[c] = "in_flight"
        /\ Rate = parseRate(HdrExhausted)
        /\ lastUpdate.Rate = Rate
        /\ now = Rate.Reset.sec

\* the step in which caller c's request goes to the transport
Send(c) == GuardTest(c) /\ pc'[c] = "in_flight"

\* C27 as stated: a request is sent while the cached Rate is throttling only
\* by a call whose snapshot is older than that Rate, and every send comes
\* after a snapshot of the same call that was not throttling when it was taken.
C27_SnapshotNonThrottlingWhenTaken ==
    [][\A c \in Callers :
        Send(c)
        => /\ Throttling(Rate, now) => rate[c] # Rate
           /\ ~snapThr[c]]_vars

\* C27 amended: a request is sent while the cached Rate is throttling only by a
\* call whose snapshot is older than that Rate, and every send comes after a
\* test of the same call's snapshot that found it not throttling at the time
\* of the test.
C27_SendAfterPassingGuard ==
    [][\A c \in Callers :
        Send(c)
        => /\ Throttling(Rate, now) => rate[c] # Rate
           /\ ~Throttling(rate[c], now)
           /\ sends[c] = 0 /\ sends'[c] = 1]_vars

\* a second request is in flight while the cached Rate, stored by the call
\* that sent first and has returned, is throttling
C27_Witness ==
    \E c, d \in Callers :
        /\ c # d
        /\ pc[c] = "in_flight" /\ sentAt[c] = 2
        /\ pc[d] = "returned" /\ sentAt[d] = 1
        /\ response[d].Rate = Rate
        /\ Throttling(Rate, now)

\* C28: the mutex is held by at most one caller, and only by a caller that is
\* copying the snapshot or storing its update, never by a call that is in the
\* transport, classifying, decoding or done; a caller in either critical
\* section is the holder; the holder can always take its next step, so every
\* acquisition is followed by a release; and a caller that waits for the mutex
\* can take it as soon as it is free.
C28_LockOnlyForCopy ==
    /\ ratemtx \in {0} \cup Callers
    /\ \A c \in Callers :
        /\ ratemtx = c <=> pc[c] \in {"guard_read", "update_write"}
        /\ ratemtx = c
             => /\ fld[c] <= Len(RateFields)
                /\ ENABLED DoStep(c)
        /\ (pc[c] \in {"guard_lock", "update_lock"} /\ ratemtx = 0)
             => ENABLED DoStep(c)

\* one call is in the transport while another call holds the mutex and
\* stores its update
C28_Witness ==
    \E c, d \in Callers :
        /\ c # d
        /\ pc[c] = "in_flight"
        /\ pc[d] = "update_write"
        /\ ratemtx = d
        /\ fld[d] > 0

====
